---- MODULE Spec2Model ----
(***************************************************************************)
(* Model of the UART register terminal: the Qt front-end                   *)
(* (src/terminal-gui.py, class STM32Terminal) and the console front-end    *)
(* (src/terminal.py, main), both driving a pyserial connection.            *)
(*                                                                         *)
(* Text is modelled as a sequence of one-character strings; "CR" and "LF"  *)
(* stand for the bytes \r and \n, "xFF" for a byte that is not valid       *)
(* UTF-8.                                                                  *)
(***************************************************************************)
EXTENDS Integers, Sequences, FiniteSets, TLC

\* ------------------------------------------------------------------ bounds
\* number of register commands that reach the transport in one run
MaxCmds == 2
\* number of serial handles one run may open
MaxOpens == 2

\* ------------------------------------------------------------ text helpers
HexChars == {"0", "1", "2", "3", "4", "5", "6", "7", "8", "9",
             "a", "b", "c", "d", "e", "f", "A", "B", "C", "D", "E", "F"}

WhiteSpace == {" ", "CR", "LF"}

DigitVal(c) ==
    CASE c = "0" -> 0 [] c = "1" -> 1 [] c = "2" -> 2 [] c = "3" -> 3
      [] c = "4" -> 4 [] c = "5" -> 5 [] c = "6" -> 6 [] c = "7" -> 7
      [] c = "8" -> 8 [] c = "9" -> 9
      [] c \in {"a", "A"} -> 10 [] c \in {"b", "B"} -> 11
      [] c \in {"c", "C"} -> 12 [] c \in {"d", "D"} -> 13
      [] c \in {"e", "E"} -> 14 [] c \in {"f", "F"} -> 15

UpperDigit(d) ==
    <<"0", "1", "2", "3", "4", "5", "6", "7", "8", "9",
      "A", "B", "C", "D", "E", "F">>[d + 1]

RECURSIVE LStrip(_)
LStrip(s) ==
    IF s # <<>> /\ Head(s) \in WhiteSpace THEN LStrip(Tail(s)) ELSE s

RECURSIVE RStrip(_)
RStrip(s) ==
    IF s # <<>> /\ s[Len(s)] \in WhiteSpace
    THEN RStrip(SubSeq(s, 1, Len(s) - 1))
    ELSE s

\* str.strip()
Strip(s) == RStrip(LStrip(s))

\* the digits of int(text, 16) after sign and prefix: hex digits, single
\* underscores only between two digits
RECURSIVE DigitsOk(_, _)
DigitsOk(s, prevDigit) ==
    IF s = <<>> THEN prevDigit
    ELSE IF Head(s) \in HexChars THEN DigitsOk(Tail(s), TRUE)
    ELSE IF Head(s) = "_" THEN prevDigit /\ DigitsOk(Tail(s), FALSE)
    ELSE FALSE

\* A Python int is unbounded: it is kept as a sign and its base-16 magnitude,
\* most significant digit first, without leading zeros (zero is <<0>>).
RECURSIVE Nibbles(_)
Nibbles(s) ==
    IF s = <<>> THEN <<>>
    ELSE IF Head(s) = "_" THEN Nibbles(Tail(s))
    ELSE <<DigitVal(Head(s))>> \o Nibbles(Tail(s))

RECURSIVE Canonical(_)
Canonical(m) ==
    IF Len(m) > 1 /\ Head(m) = 0 THEN Canonical(Tail(m)) ELSE m

MkInt(neg, m) ==
    LET c == Canonical(m) IN [neg |-> neg /\ c # <<0>>, mag |-> c]

HasSign(s) == s # <<>> /\ Head(s) \in {"+", "-"}

HasPrefix(s) == Len(s) >= 2 /\ s[1] = "0" /\ s[2] \in {"x", "X"}

\* what int(text, 16) reads after the optional sign: an optional 0x/0X
\* prefix, one underscore allowed right after the prefix
Body(s) ==
    LET u == IF HasSign(s) THEN Tail(s) ELSE s
        p == IF HasPrefix(u) THEN SubSeq(u, 3, Len(u)) ELSE u
    IN  IF HasPrefix(u) /\ p # <<>> /\ Head(p) = "_" THEN Tail(p) ELSE p

\* Python's int(text, 16): [ok |-> FALSE] is ValueError
PyIntBase16(text) ==
    LET s == Strip(text)
        b == Body(s)
    IN  IF b # <<>> /\ Head(b) \in HexChars /\ DigitsOk(b, FALSE)
        THEN [ok |-> TRUE, val |-> MkInt(s[1] = "-", Nibbles(b))]
        ELSE [ok |-> FALSE, val |-> MkInt(FALSE, <<0>>)]

\* variant: the format spec is "x", lowercase digits
FormatX_lower(n) ==
    (IF n.neg THEN <<"-">> ELSE <<>>)
        \o [i \in 1..Len(n.mag) |->
               <<"0", "1", "2", "3", "4", "5", "6", "7", "8", "9",
                 "a", "b", "c", "d", "e", "f">>[n.mag[i] + 1]]

\* Python's format(n, "X")
FormatX(n) ==
    (IF n.neg THEN <<"-">> ELSE <<>>)
        \o [i \in 1..Len(n.mag) |-> UpperDigit(n.mag[i])]

\* bytes.decode(errors="ignore"): undecodable bytes are dropped
DecodeIgnore(bytes) == SelectSeq(bytes, LAMBDA b : b # "xFF")

\* bytes.decode(): [ok |-> FALSE] is UnicodeDecodeError
DecodeStrict(bytes) ==
    IF \E i \in 1..Len(bytes) : bytes[i] = "xFF"
    THEN [ok |-> FALSE, text |-> <<>>]
    ELSE [ok |-> TRUE, text |-> bytes]

\* f"read 0x{address:X}\r\n"
ReadCmd(address) ==
    <<"r", "e", "a", "d", " ", "0", "x">> \o FormatX(address) \o <<"CR", "LF">>

\* f"write 0x{address:X} 0x{value:X}\r\n"
WriteCmd(address, value) ==
    <<"w", "r", "i", "t", "e", " ", "0", "x">> \o FormatX(address)
        \o <<" ", "0", "x">> \o FormatX(value) \o <<"CR", "LF">>

\* the sentinel send_command returns on failure
ERROR == <<"E", "R", "R", "O", "R">>

\* the named-register table, as (name, address) pairs
\* variant: the table's address of VTOR is that of ICSR
SCB_REGISTERS_vtor_typo ==
    { <<"CPUID", MkInt(FALSE, <<14, 0, 0, 0, 14, 13, 0, 0>>)>>,
      <<"ICSR",  MkInt(FALSE, <<14, 0, 0, 0, 14, 13, 0, 4>>)>>,
      <<"VTOR",  MkInt(FALSE, <<14, 0, 0, 0, 14, 13, 0, 4>>)>>,
      <<"AIRCR", MkInt(FALSE, <<14, 0, 0, 0, 14, 13, 0, 12>>)>>,
      <<"SCR",   MkInt(FALSE, <<14, 0, 0, 0, 14, 13, 1, 0>>)>>,
      <<"CCR",   MkInt(FALSE, <<14, 0, 0, 0, 14, 13, 1, 4>>)>> }

SCB_REGISTERS ==
    { <<"CPUID", MkInt(FALSE, <<14, 0, 0, 0, 14, 13, 0, 0>>)>>,
      <<"ICSR",  MkInt(FALSE, <<14, 0, 0, 0, 14, 13, 0, 4>>)>>,
      <<"VTOR",  MkInt(FALSE, <<14, 0, 0, 0, 14, 13, 0, 8>>)>>,
      <<"AIRCR", MkInt(FALSE, <<14, 0, 0, 0, 14, 13, 0, 12>>)>>,
      <<"SCR",   MkInt(FALSE, <<14, 0, 0, 0, 14, 13, 1, 0>>)>>,
      <<"CCR",   MkInt(FALSE, <<14, 0, 0, 0, 14, 13, 1, 4>>)>> }

\* ------------------------------------------------------------------ inputs
\* texts a user may type into an address or value field
Texts ==
    { <<>>,
      <<"0", "X", "0", "1", "f">>,
      <<" ", "f", "f", "f", "f", "f", "f", "f", "f", " ">>,
      <<"1", "0", "0", "0", "0", "0", "0", "0", "0">>,
      <<"-", "1">>,
      <<"1", "_", "0">>,
      <<"0", "x", "g">>,
      <<"1", " ", "0">> }

\* (address text, value text) pairs a user may type for a write
WritePairs ==
    { << <<"2", "0", "0", "0", "0", "0", "0", "0">>,
         <<"D", "E", "A", "D", "B", "E", "E", "F">> >>,
      << <<"0", "x", "1", "F">>, <<"1", "0", "0", "0", "0", "0", "0", "0", "0">> >>,
      << <<"0", "x", "1", "F">>, <<"-", "1">> >>,
      << <<"0", "x", "1", "F">>, <<"0", "x", "g">> >>,
      << <<"0", "x", "1", "F">>, <<>> >>,
      << <<"0", "x", "g">>, <<"1", "f">> >>,
      << <<>>, <<"1", "f">> >>,
      << <<"0", "x", "g">>, <<"0", "x", "g">> >> }

\* texts of the port field
PortTexts == { <<>>, <<" ">>, <<"C", "O", "M", "5">> }

\* error texts of the serial driver
DriverErrors == {"could not open port", "access denied"}

\* lines the device may answer with
DeviceLines == { <<"O", "K", "CR", "LF">>, <<"O", "xFF", "K", "CR", "LF">> }

\* what the link and the device do during one command: the write raises or
\* not, the device answers before the read returns, later, or never, and
\* the read raises or not
CmdEnvs ==
    { [wfault |-> f = "write", rfault |-> f = "read", fate |-> "never",
       data |-> <<"O", "K", "CR", "LF">>] : f \in {"write", "read", "none"} }
    \cup [wfault : {FALSE}, rfault : {FALSE}, fate : {"intime"},
          data : DeviceLines]
    \cup { [wfault |-> FALSE, rfault |-> FALSE, fate |-> "late",
            data |-> <<"O", "K", "CR", "LF">>] }

\* the link is only consulted by a command that reaches it
EnvsWhen(reaches) ==
    IF reaches THEN CmdEnvs
    ELSE { [wfault |-> FALSE, rfault |-> FALSE, fate |-> "never",
            data |-> <<"O", "K", "CR", "LF">>] }

\* ------------------------------------------------------------------- state
VARIABLES
    frontend,       \* "gui" (terminal-gui.py) or "cli" (terminal.py)
    ser,            \* 0 is None, otherwise the handle of the Serial object
    openHandles,    \* handles whose is_open is True
    opened,         \* number of Serial objects constructed so far
    connect_btn,    \* enabled state of the widgets
    disconnect_btn,
    read_btn,
    write_btn,
    scb_buttons,
    windowOpen,     \* the window has not been closed
    cliPc,          \* "start", "loop" or "done"
    nWrites,        \* calls of Serial.write so far
    rxBuf,          \* lines waiting in the input buffer of the port
    pending,        \* answers the device still owes
    last            \* what the last handler did; tx is the bytes it wrote

vars == <<frontend, ser, openHandles, opened, connect_btn, disconnect_btn,
          read_btn, write_btn, scb_buttons, windowOpen, cliPc, nWrites,
          rxBuf, pending, last>>

buttons == <<connect_btn, disconnect_btn, read_btn, write_btn, scb_buttons>>
conn == <<ser, openHandles, opened>>
link == <<nWrites, rxBuf, pending>>

NoOp ==
    [op |-> "none", via |-> "none", outcome |-> "none", resp |-> <<>>,
     shown |-> <<>>, io |-> <<>>, raised |-> "", returned |-> FALSE,
     replyTo |-> 0, wasOpen |-> FALSE, args |-> <<>>, nums |-> <<>>,
     readEv |-> "none", tx |-> <<>>, name |-> ""]

\* self.ser and self.ser.is_open
IsOpen == ser # 0 /\ ser \in openHandles

Init ==
    /\ frontend \in {"gui", "cli"}
    /\ ser = 0
    /\ openHandles = {}
    /\ opened = 0
    /\ connect_btn = TRUE
    /\ disconnect_btn = FALSE
    /\ read_btn = FALSE
    /\ write_btn = FALSE
    /\ scb_buttons = FALSE
    /\ windowOpen = (frontend = "gui")
    /\ cliPc = IF frontend = "cli" THEN "start" ELSE "done"
    /\ nWrites = 0
    /\ rxBuf = <<>>
    /\ pending = <<>>
    /\ last = NoOp

\* ------------------------------------------------------- the serial link
\* the answer of the device to the command being written
Reply(env) == [id |-> nWrites + 1, data |-> env.data]

\* the input buffer when readline returns: an answer sent in time is in it
BufAtRead(env) ==
    IF env.fate = "intime" THEN Append(rxBuf, Reply(env)) ELSE rxBuf

\* the answers still owed after the command was written
OwedAfter(env) ==
    IF env.fate = "late" THEN Append(pending, Reply(env)) ELSE pending

\* Serial.readline() with timeout=1: the first waiting line, or b"" when
\* the timeout elapses with nothing received
Readline(buf) == IF buf = <<>> THEN <<>> ELSE Head(buf).data

\* a late answer of the device reaches the input buffer of the open port
\* (it is lost when the port is closed)
DeviceReply ==
    /\ pending # <<>>
    /\ pending' = Tail(pending)
    /\ rxBuf' = IF IsOpen THEN Append(rxBuf, Head(pending)) ELSE rxBuf
    /\ UNCHANGED <<frontend, conn, buttons, windowOpen, cliPc, nWrites, last>>

\* what a command does to the link: r is the result of send_command or of
\* read_register / write_register
ApplyLink(r) ==
    /\ nWrites' = nWrites + (IF r.wrote THEN 1 ELSE 0)
    /\ rxBuf' = r.rx
    /\ pending' = r.pend

\* ------------------------------------------------------ terminal-gui.py
ShowError(msg, arg) == <<[msg |-> msg, arg |-> arg]>>

\* variant: the Connect button is left enabled
set_connected_state_connect_stays(connected) ==
    /\ scb_buttons' = connected
    /\ read_btn' = connected
    /\ write_btn' = connected
    /\ connect_btn' = TRUE
    /\ disconnect_btn' = connected

set_connected_state(connected) ==
    /\ scb_buttons' = connected
    /\ read_btn' = connected
    /\ write_btn' = connected
    /\ connect_btn' = ~connected
    /\ disconnect_btn' = connected

\* the returns of send_command; io lists the calls made on the port
NotOpen ==
    [outcome |-> "NotConnected", resp |-> ERROR, returned |-> TRUE,
     shown |-> ShowError("Serial port not open.", ""),
     io |-> <<>>, wrote |-> FALSE, didRead |-> FALSE,
     rx |-> rxBuf, pend |-> pending, replyTo |-> 0, readEv |-> "none"]

\* self.ser.write raised
WriteFailed ==
    [outcome |-> "TransportError", resp |-> ERROR, returned |-> TRUE,
     shown |-> ShowError("Serial error", "write failed"),
     io |-> <<"write">>, wrote |-> TRUE, didRead |-> FALSE,
     rx |-> rxBuf, pend |-> pending, replyTo |-> 0, readEv |-> "none"]

\* self.ser.readline raised
ReadFailed(env) ==
    [outcome |-> "TransportError", resp |-> ERROR, returned |-> TRUE,
     shown |-> ShowError("Serial error", "read failed"),
     io |-> <<"write", "sleep", "readline">>,
     wrote |-> TRUE, didRead |-> TRUE,
     rx |-> BufAtRead(env), pend |-> OwedAfter(env), replyTo |-> 0,
     readEv |-> IF BufAtRead(env) = <<>> /\ ~env.rfault
                THEN "timeout" ELSE "fault"]

\* variant: a read that times out is tried once more
ReadDone_rereads(env) ==
    LET buf == BufAtRead(env) IN
    [outcome |-> "Ok",
     resp |-> Strip(DecodeIgnore(Readline(buf))), returned |-> TRUE,
     shown |-> <<>>,
     io |-> IF buf = <<>> THEN <<"write", "sleep", "readline", "readline">>
            ELSE <<"write", "sleep", "readline">>,
     wrote |-> TRUE, didRead |-> TRUE,
     rx |-> IF buf = <<>> THEN <<>> ELSE Tail(buf),
     pend |-> OwedAfter(env),
     replyTo |-> IF buf = <<>> THEN 0 ELSE Head(buf).id,
     readEv |-> IF buf = <<>> THEN "timeout" ELSE "line"]

\* self.ser.readline returned: the response is decoded and stripped
ReadDone(env) ==
    LET buf == BufAtRead(env) IN
    [outcome |-> "Ok",
     resp |-> Strip(DecodeIgnore(Readline(buf))), returned |-> TRUE,
     shown |-> <<>>,
     io |-> <<"write", "sleep", "readline">>,
     wrote |-> TRUE, didRead |-> TRUE,
     rx |-> IF buf = <<>> THEN <<>> ELSE Tail(buf),
     pend |-> OwedAfter(env),
     replyTo |-> IF buf = <<>> THEN 0 ELSE Head(buf).id,
     readEv |-> IF buf = <<>> THEN "timeout" ELSE "line"]

\* variant: a read that times out is handled like a read that raised
SendOnOpen_TimeoutRaises(cmd, env) ==
    IF env.wfault THEN WriteFailed
    ELSE IF env.rfault \/ BufAtRead(env) = <<>> THEN ReadFailed(env)
    ELSE ReadDone(env)

\* the try block of send_command
SendOnOpen(cmd, env) ==
    IF env.wfault THEN WriteFailed
    ELSE IF env.rfault THEN ReadFailed(env)
    ELSE ReadDone(env)

\* variant: no check of self.ser.is_open before the try block
send_command_unchecked(cmd, env) == SendOnOpen(cmd, env)

send_command(cmd, env) ==
    IF ~IsOpen THEN NotOpen ELSE SendOnOpen(cmd, env)

\* the record of a handler that called send_command
Sent(op, via, args, nums, cmd, r) ==
    [op |-> op, via |-> via, outcome |-> r.outcome, resp |-> r.resp,
     shown |-> r.shown, io |-> r.io, raised |-> "", returned |-> r.returned,
     replyTo |-> r.replyTo, wasOpen |-> IsOpen, args |-> args, nums |-> nums,
     readEv |-> r.readEv, tx |-> IF r.wrote THEN cmd ELSE <<>>, name |-> ""]

\* the record of a handler that ended before any command was built
Ended(op, via, outcome, shown) ==
    [NoOp EXCEPT !.op = op, !.via = via, !.outcome = outcome,
                 !.shown = shown, !.wasOpen = IsOpen]

\* the same for a handler that was given texts
Rejected(op, via, args, outcome, shown) ==
    [Ended(op, via, outcome, shown) EXCEPT !.args = args]

\* a handler runs from a click only while the window is open and its
\* button is enabled; "call" is a direct call of the method
Triggered(via, enabled) == windowOpen /\ (via = "call" \/ enabled)

connect_serial(via, portText, ok, err, fin) ==
    /\ frontend = "gui"
    /\ Triggered(via, connect_btn)
    /\ IF Strip(portText) = <<>>
       THEN /\ last' = Ended("connect_serial", via, "NoPort",
                             ShowError("Please enter a COM port (e.g., COM5).", ""))
            /\ UNCHANGED <<conn, buttons, rxBuf>>
       ELSE IF ok
       THEN /\ opened < MaxOpens
            /\ opened' = opened + 1
            /\ ser' = opened + 1
            \* the Serial object self.ser referred to is unreferenced now:
            \* it is closed when (and if) the runtime finalizes it
            /\ openHandles' =
                   (openHandles \ (IF fin THEN {ser} ELSE {})) \cup {opened + 1}
            /\ rxBuf' = <<>>
            /\ set_connected_state(TRUE)
            /\ last' = Ended("connect_serial", via, "Ok", <<>>)
       ELSE /\ last' = Ended("connect_serial", via, "PortUnavailable",
                             ShowError("Failed to open serial port", err))
            /\ UNCHANGED <<conn, buttons, rxBuf>>
    /\ UNCHANGED <<frontend, windowOpen, cliPc, nWrites, pending>>

\* variant: self.ser.close() is called without the guard, and raises when
\* there is no open port
disconnect_serial_unguarded(via) ==
    /\ frontend = "gui"
    /\ Triggered(via, disconnect_btn)
    /\ IF IsOpen
       THEN /\ openHandles' = openHandles \ {ser}
            /\ rxBuf' = <<>>
            /\ set_connected_state(FALSE)
            /\ last' = Ended("disconnect_serial", via, "Ok", <<>>)
       ELSE /\ last' = [Ended("disconnect_serial", via, "Error", <<>>)
                            EXCEPT !.raised = "AttributeError"]
            /\ UNCHANGED <<openHandles, rxBuf, buttons>>
    /\ UNCHANGED <<frontend, ser, opened, windowOpen, cliPc, nWrites, pending>>

\* variant: the port is closed and the widgets are left as they were
disconnect_serial_keeps_buttons(via) ==
    /\ frontend = "gui"
    /\ Triggered(via, disconnect_btn)
    /\ openHandles' = IF IsOpen THEN openHandles \ {ser} ELSE openHandles
    /\ rxBuf' = IF IsOpen THEN <<>> ELSE rxBuf
    /\ last' = Ended("disconnect_serial", via, "Ok", <<>>)
    /\ UNCHANGED <<frontend, ser, opened, buttons, windowOpen, cliPc, nWrites, pending>>

disconnect_serial(via) ==
    /\ frontend = "gui"
    /\ Triggered(via, disconnect_btn)
    /\ openHandles' = IF IsOpen THEN openHandles \ {ser} ELSE openHandles
    /\ rxBuf' = IF IsOpen THEN <<>> ELSE rxBuf
    /\ set_connected_state(FALSE)
    /\ last' = Ended("disconnect_serial", via, "Ok", <<>>)
    /\ UNCHANGED <<frontend, ser, opened, windowOpen, cliPc, nWrites, pending>>

\* variant: the window closes without closing the port
closeEvent_noclose(via) ==
    /\ frontend = "gui"
    /\ via = "call" \/ windowOpen
    /\ windowOpen' = FALSE
    /\ last' = Ended("closeEvent", via, "Ok", <<>>)
    /\ UNCHANGED <<frontend, conn, buttons, cliPc, link>>

closeEvent(via) ==
    /\ frontend = "gui"
    /\ via = "call" \/ windowOpen
    /\ openHandles' = IF IsOpen THEN openHandles \ {ser} ELSE openHandles
    /\ rxBuf' = IF IsOpen THEN <<>> ELSE rxBuf
    /\ windowOpen' = FALSE
    /\ last' = Ended("closeEvent", via, "Ok", <<>>)
    /\ UNCHANGED <<frontend, ser, opened, buttons, cliPc, nWrites, pending>>

\* a command may be issued while the run has commands left
CmdBudget == IsOpen => nWrites < MaxCmds

read_scb_register(via, address, name, env) ==
    /\ frontend = "gui"
    /\ Triggered(via, scb_buttons)
    /\ CmdBudget
    /\ LET cmd == ReadCmd(address)
           r == send_command(cmd, env)
       IN  /\ ApplyLink(r)
           /\ last' = [Sent("read_scb_register", via, <<>>, <<address>>, cmd, r)
                           EXCEPT !.name = name]
    /\ UNCHANGED <<frontend, conn, buttons, windowOpen, cliPc>>

read_custom_register(via, addr_text, env) ==
    /\ frontend = "gui"
    /\ Triggered(via, read_btn)
    /\ CmdBudget
    /\ LET addr == PyIntBase16(Strip(addr_text)) IN
       IF addr.ok
       THEN LET cmd == ReadCmd(addr.val)
                r == send_command(cmd, env)
            IN  /\ ApplyLink(r)
                /\ last' = Sent("read_custom_register", via, <<addr_text>>,
                                 <<addr.val>>, cmd, r)
       ELSE /\ last' = Rejected("read_custom_register", via, <<addr_text>>,
                     "InvalidFormat",
                     ShowError("Invalid address format. Use hex (e.g., 0x48000010).", ""))
            /\ UNCHANGED link
    /\ UNCHANGED <<frontend, conn, buttons, windowOpen, cliPc>>

write_custom_register(via, addr_text, val_text, env) ==
    /\ frontend = "gui"
    /\ Triggered(via, write_btn)
    /\ CmdBudget
    /\ LET addr == PyIntBase16(Strip(addr_text))
           val == PyIntBase16(Strip(val_text))
       IN
       IF addr.ok /\ val.ok
       THEN LET cmd == WriteCmd(addr.val, val.val)
                r == send_command(cmd, env)
            IN  /\ ApplyLink(r)
                /\ last' = Sent("write_custom_register", via,
                                 <<addr_text, val_text>>,
                                 <<addr.val, val.val>>, cmd, r)
       ELSE /\ last' = Rejected("write_custom_register", via,
                     <<addr_text, val_text>>, "InvalidFormat",
                     ShowError("Invalid address or value format. Use hex (e.g., 0x48000010).", ""))
            /\ UNCHANGED link
    /\ UNCHANGED <<frontend, conn, buttons, windowOpen, cliPc>>

\* ---------------------------------------------------------- terminal.py
\* argument lists of a console line (the tokens after the command word)
CliArgs ==
    { <<>>,
      << <<"0", "x", "1", "F">> >>,
      << <<"1", "0", "0", "0", "0", "0", "0", "0", "0">> >>,
      << <<"-", "1">> >>,
      << <<"z">> >>,
      << <<"0", "x", "1", "F">>, <<"1", "f">> >>,
      << <<"0", "x", "1", "F">>, <<"0", "x", "g">> >>,
      << <<"z">>, <<"1", "f">> >>,
      << <<"0">>, <<"0">>, <<"0">> >> }

CliWords == {"exit", "read", "write", "help"}

\* the body shared by read_register and write_register: write, readline,
\* decode, strip; raised # "" is the exception that leaves the function
cli_transfer(env) ==
    IF env.wfault
    THEN [raised |-> "SerialException", resp |-> <<>>, returned |-> FALSE,
          io |-> <<"write">>, wrote |-> TRUE, didRead |-> FALSE,
          rx |-> rxBuf, pend |-> pending, replyTo |-> 0, readEv |-> "none"]
    ELSE IF env.rfault
    THEN [raised |-> "SerialException", resp |-> <<>>, returned |-> FALSE,
          io |-> <<"write", "readline">>, wrote |-> TRUE, didRead |-> TRUE,
          rx |-> BufAtRead(env), pend |-> OwedAfter(env), replyTo |-> 0,
          readEv |-> "fault"]
    ELSE LET buf == BufAtRead(env)
             dec == DecodeStrict(Readline(buf))
         IN  [raised |-> IF dec.ok THEN "" ELSE "UnicodeDecodeError",
              resp |-> IF dec.ok THEN Strip(dec.text) ELSE <<>>,
              returned |-> dec.ok,
              io |-> <<"write", "readline">>,
              wrote |-> TRUE, didRead |-> TRUE,
              rx |-> IF buf = <<>> THEN <<>> ELSE Tail(buf),
              pend |-> OwedAfter(env),
              replyTo |-> IF buf = <<>> THEN 0 ELSE Head(buf).id,
          readEv |-> IF buf = <<>> THEN "timeout" ELSE "line"]

read_register(address, env) == cli_transfer(env)

write_register(address, value, env) == cli_transfer(env)

\* the record main leaves after calling read_register / write_register:
\* an exception is caught by "except Exception" and printed
CliSent(op, args, nums, cmd, r) ==
    [op |-> op, via |-> "cli",
     outcome |-> IF r.raised = "" THEN "Ok"
                 ELSE IF r.raised = "SerialException" THEN "TransportError"
                 ELSE "DecodeError",
     resp |-> r.resp,
     shown |-> IF r.raised = "" THEN <<>> ELSE ShowError("Error", r.raised),
     io |-> r.io, raised |-> r.raised, returned |-> r.returned,
     replyTo |-> r.replyTo, wasOpen |-> IsOpen, args |-> args, nums |-> nums,
     readEv |-> r.readEv, tx |-> IF r.wrote THEN cmd ELSE <<>>, name |-> ""]

\* variant: main enters its loop although open_serial returned None
CliOpen_nocheck(ok, err) ==
    /\ frontend = "cli"
    /\ cliPc = "start"
    /\ cliPc' = "loop"
    /\ IF ok
       THEN /\ ser' = opened + 1
            /\ opened' = opened + 1
            /\ openHandles' = openHandles \cup {opened + 1}
            /\ last' = Ended("open_serial", "cli", "Ok", <<>>)
       ELSE /\ last' = Ended("open_serial", "cli", "PortUnavailable",
                             ShowError("Failed to open serial port", err))
            /\ UNCHANGED conn
    /\ UNCHANGED <<frontend, buttons, windowOpen, link>>

\* open_serial(SERIAL_PORT, BAUD_RATE) at the start of main
CliOpen(ok, err) ==
    /\ frontend = "cli"
    /\ cliPc = "start"
    /\ IF ok
       THEN /\ ser' = opened + 1
            /\ opened' = opened + 1
            /\ openHandles' = openHandles \cup {opened + 1}
            /\ cliPc' = "loop"
            /\ last' = Ended("open_serial", "cli", "Ok", <<>>)
       ELSE /\ cliPc' = "done"
            /\ last' = Ended("open_serial", "cli", "PortUnavailable",
                             ShowError("Failed to open serial port", err))
            /\ UNCHANGED conn
    /\ UNCHANGED <<frontend, buttons, windowOpen, link>>

\* variant: main returns after the loop without ser.close()
CliClose_noclose(op) ==
    /\ cliPc' = "done"
    /\ last' = Ended(op, "cli", "Ok", <<>>)
    /\ UNCHANGED <<frontend, conn, buttons, windowOpen, link>>

\* ser.close() after the loop
CliClose(op) ==
    /\ openHandles' = openHandles \ {ser}
    /\ rxBuf' = <<>>
    /\ cliPc' = "done"
    /\ last' = Ended(op, "cli", "Ok", <<>>)
    /\ UNCHANGED <<frontend, ser, opened, buttons, windowOpen, nWrites, pending>>

\* one iteration of the loop of main on the line "word args..."
CliLine(word, args, env) ==
    /\ frontend = "cli"
    /\ cliPc = "loop"
    /\ IF word = "exit" /\ args = <<>>
       THEN CliClose("exit")
       ELSE /\ IF word = "read" /\ args # <<>>
               THEN IF Len(args) # 1
                    THEN /\ last' = Rejected("read", "cli", args, "UsageError",
                                          ShowError("Error", "ValueError: unpack"))
                         /\ UNCHANGED link
                    ELSE LET addr == PyIntBase16(args[1]) IN
                         IF ~addr.ok
                         THEN /\ last' = Rejected("read", "cli", args, "InvalidFormat",
                                               ShowError("Error", "ValueError: int"))
                              /\ UNCHANGED link
                         ELSE LET cmd == ReadCmd(addr.val)
                                  r == read_register(addr.val, env)
                              IN  /\ nWrites < MaxCmds
                                  /\ ApplyLink(r)
                                  /\ last' = CliSent("read", args, <<addr.val>>, cmd, r)
               ELSE IF word = "write" /\ args # <<>>
               THEN IF Len(args) # 2
                    THEN /\ last' = Rejected("write", "cli", args, "UsageError",
                                          ShowError("Error", "ValueError: unpack"))
                         /\ UNCHANGED link
                    ELSE LET addr == PyIntBase16(args[1])
                             val == PyIntBase16(args[2])
                         IN
                         IF ~addr.ok \/ ~val.ok
                         THEN /\ last' = Rejected("write", "cli", args, "InvalidFormat",
                                               ShowError("Error", "ValueError: int"))
                              /\ UNCHANGED link
                         ELSE LET cmd == WriteCmd(addr.val, val.val)
                                  r == write_register(addr.val, val.val, env)
                              IN  /\ nWrites < MaxCmds
                                  /\ ApplyLink(r)
                                  /\ last' = CliSent("write", args,
                                                   <<addr.val, val.val>>, cmd, r)
               ELSE /\ last' = Rejected("invalid", "cli", args, "InvalidCommand",
                          ShowError("Invalid command. Use: read 0xADDR or write 0xADDR 0xVALUE", ""))
                    /\ UNCHANGED link
            /\ UNCHANGED <<frontend, conn, buttons, windowOpen, cliPc>>

\* variant: KeyboardInterrupt is caught and the loop goes on
CliInterrupt_ignored ==
    /\ frontend = "cli"
    /\ cliPc = "loop"
    /\ last' = Ended("KeyboardInterrupt", "cli", "Ok", <<>>)
    /\ UNCHANGED <<frontend, conn, buttons, windowOpen, cliPc, link>>

\* Ctrl+C while main waits in input()
CliInterrupt ==
    /\ frontend = "cli"
    /\ cliPc = "loop"
    /\ CliClose("KeyboardInterrupt")

\* the line passes the checks of main and reaches read_register or
\* write_register
CliReaches(word, args) ==
    IF word = "read" THEN Len(args) = 1 /\ PyIntBase16(args[1]).ok
    ELSE IF word = "write"
    THEN Len(args) = 2 /\ PyIntBase16(args[1]).ok /\ PyIntBase16(args[2]).ok
    ELSE FALSE

\* the bytes main has read_register or write_register write for the line
CliCmd(word, args) ==
    IF word = "read" THEN ReadCmd(PyIntBase16(args[1]).val)
    ELSE WriteCmd(PyIntBase16(args[1]).val, PyIntBase16(args[2]).val)

\* Ctrl+C while a command waits in ser.readline(): the command was
\* written, KeyboardInterrupt leaves read_register / write_register, main
\* breaks out of the loop and closes the port
CliInterruptCmd(word, args) ==
    /\ frontend = "cli"
    /\ cliPc = "loop"
    /\ CliReaches(word, args)
    /\ nWrites < MaxCmds
    /\ nWrites' = nWrites + 1
    /\ openHandles' = openHandles \ {ser}
    /\ rxBuf' = <<>>
    /\ cliPc' = "done"
    /\ last' = [Ended("KeyboardInterrupt", "cli", "Ok", <<>>)
                   EXCEPT !.io = <<"write", "readline">>,
                          !.raised = "KeyboardInterrupt",
                          !.args = args,
                          !.tx = CliCmd(word, args)]
    /\ UNCHANGED <<frontend, ser, opened, buttons, windowOpen, pending>>

\* ---------------------------------------------------------- specifications
Click  == "button"
Direct == "call"

GuiConnect(via) ==
    \E p \in PortTexts, ok \in BOOLEAN :
        \E err \in IF ok THEN {"could not open port"} ELSE DriverErrors,
           fin \in IF ok /\ IsOpen THEN BOOLEAN ELSE {TRUE} :
            connect_serial(via, p, ok, err, fin)

GuiDisconnect(via) == disconnect_serial(via)

GuiClose(via) == closeEvent(via)

\* the buttons are made from the table; a direct call passes any address
\* and name
OtherNamed == { <<"BOGUS", MkInt(FALSE, <<1, 15>>)>> }

GuiReadScb(via) ==
    \E reg \in IF via = Direct THEN SCB_REGISTERS \cup OtherNamed ELSE SCB_REGISTERS,
       env \in EnvsWhen(IsOpen) :
        read_scb_register(via, reg[2], reg[1], env)

GuiRead(via) ==
    \E t \in Texts :
        \E env \in EnvsWhen(IsOpen /\ PyIntBase16(t).ok) :
            read_custom_register(via, t, env)

GuiWrite(via) ==
    \E w \in WritePairs :
        \E env \in EnvsWhen(IsOpen /\ PyIntBase16(w[1]).ok /\ PyIntBase16(w[2]).ok) :
            write_custom_register(via, w[1], w[2], env)

CliStart == \E ok \in BOOLEAN, err \in DriverErrors : CliOpen(ok, err)

CliStep ==
    \E word \in CliWords, args \in CliArgs :
        \E env \in EnvsWhen(word \in {"read", "write"} /\ args # <<>>) :
            CliLine(word, args, env)

CliBreak == \E word \in CliWords, args \in CliArgs : CliInterruptCmd(word, args)

\* the programs as they run: the window's handlers fire from enabled
\* buttons only
Next ==
    \/ GuiConnect(Click)
    \/ GuiDisconnect(Click)
    \/ GuiClose(Click)
    \/ GuiReadScb(Click)
    \/ GuiRead(Click)
    \/ GuiWrite(Click)
    \/ CliStart
    \/ CliStep
    \/ CliInterrupt
    \/ CliBreak
    \/ DeviceReply

Spec == Init /\ [][Next]_vars

\* the same programs with the methods of STM32Terminal also called
\* directly, whatever the state of the widgets
NextApi ==
    \/ Next
    \/ GuiConnect(Direct)
    \/ GuiDisconnect(Direct)
    \/ GuiClose(Direct)
    \/ GuiReadScb(Direct)
    \/ GuiRead(Direct)
    \/ GuiWrite(Direct)

SpecApi == Init /\ [][NextApi]_vars

\* ------------------------------------------------------------------ claims
CommandOps ==
    {"read_scb_register", "read_custom_register", "write_custom_register",
     "read", "write"}

OpenOps == {"connect_serial", "open_serial"}

CloseOps == {"disconnect_serial", "closeEvent", "exit", "KeyboardInterrupt"}

\* C1: bytes go to the serial transport only while a connection is open.
\* A command that is issued with no open connection (it passed the
\* validation of its texts) ends as NotConnected with the sentinel, and it
\* calls neither write nor readline; no step taken from a state without an
\* open connection raises the count of transport writes.
C1_Closed_NoTransport ==
    /\ [](last.op \in CommandOps /\ ~last.wasOpen =>
            /\ last.io = <<>>
            /\ last.tx = <<>>
            /\ last.readEv = "none"
            /\ last.outcome \in {"NotConnected", "InvalidFormat"}
            /\ last.outcome = "NotConnected" =>
                   last.resp = ERROR /\ last.shown # <<>>)
    /\ [][~IsOpen => nWrites' = nWrites]_vars

\* C1 witness: after a command was written on an open connection, a
\* command is issued with the connection closed and ends as NotConnected
C1_Witness ==
    /\ last.op \in CommandOps
    /\ ~last.wasOpen
    /\ last.outcome = "NotConnected"
    /\ nWrites > 0

\* the text is hexadecimal in the sense of the specification: hex digits
\* only, after an optional 0x/0X prefix (surrounding blanks not counted)
IsHexText(text) ==
    LET s == Strip(text)
        d == IF HasPrefix(s) THEN SubSeq(s, 3, Len(s)) ELSE s
    IN  d # <<>> /\ \A i \in 1..Len(d) : d[i] \in HexChars

\* C2 (as claimed): a read or write given a text that is not valid
\* hexadecimal reports InvalidFormat and neither writes nor reads.
C2_InvalidText_Rejected ==
    (last.op \in CommandOps /\ \E i \in 1..Len(last.args) : ~IsHexText(last.args[i]))
        => last.io = <<>> /\ last.outcome \in {"InvalidFormat", "UsageError"}

\* the text denotes a number of more than 32 bits: more than eight
\* significant hex digits
Exceeds32(text) ==
    LET s == Strip(text)
        d == IF HasPrefix(s) THEN SubSeq(s, 3, Len(s)) ELSE s
    IN  IsHexText(text) /\ Len(Canonical(Nibbles(d))) > 8

\* C3 (as claimed): a text whose value exceeds 32 bits fails to parse with
\* InvalidFormat, so that every address and value of a command written to
\* the transport lies in 0 .. 2^32 - 1.
C3_Overflow_Rejected ==
    /\ (last.op \in CommandOps /\ \E i \in 1..Len(last.args) : Exceeds32(last.args[i]))
           => last.io = <<>> /\ last.outcome \in {"InvalidFormat", "UsageError"}
    /\ last.tx # <<>> =>
           \A i \in 1..Len(last.nums) : Len(last.nums[i].mag) <= 8

ConnState == IF IsOpen THEN "Open" ELSE "Closed"

\* C5: the connection is Closed or Open; it becomes Open only by a
\* successful open from Closed and Closed only by a close from Open, a close
\* always ends Closed, a successful open ends Open, and every other handler
\* (a failed open, a command whatever its outcome, a rejected text) leaves
\* the state as it was.
C5_StateMachine ==
    /\ [][ConnState' # ConnState =>
            IF ConnState = "Closed"
            THEN last'.op \in OpenOps /\ last'.outcome = "Ok"
            ELSE last'.op \in CloseOps]_vars
    /\ [](last.op \in CloseOps => ConnState = "Closed")
    /\ [](last.op \in OpenOps /\ last.outcome = "Ok" => ConnState = "Open")
    /\ [](last.op \in CommandOps =>
            ConnState = IF last.wasOpen THEN "Open" ELSE "Closed")

\* C5 witness: a command hit a transport error and the connection is
\* still open
C5_Witness ==
    /\ last.op \in CommandOps
    /\ last.outcome = "TransportError"
    /\ ConnState = "Open"

\* C6: an open that fails reports the error text of the driver and leaves
\* the connection Closed with no handle open; the register buttons stay
\* disabled (the console program ends), and the handler that follows
\* writes nothing.
C6_FailedOpen_Closed ==
    /\ [](last.op \in OpenOps /\ last.outcome = "PortUnavailable" =>
            /\ ConnState = "Closed"
            /\ openHandles = {}
            /\ \E e \in DriverErrors :
                   last.shown = ShowError("Failed to open serial port", e)
            /\ frontend = "gui" => ~read_btn /\ ~write_btn /\ ~scb_buttons
            /\ frontend = "cli" => cliPc = "done")
    /\ [][last.op \in OpenOps /\ last.outcome = "PortUnavailable" =>
            nWrites' = nWrites]_vars

\* C6 witness: an open failed after commands had been written on an
\* earlier connection
C6_Witness ==
    /\ last.op \in OpenOps
    /\ last.outcome = "PortUnavailable"
    /\ nWrites > 0

GuiCloseOps == {"disconnect_serial", "closeEvent"}

\* C7: a close never fails and ends Closed, disconnect_serial with the
\* register buttons disabled, also when nothing is open; a close that
\* directly follows a close changes neither the connection nor the buttons.
C7_CloseIdempotent ==
    /\ [](last.op \in GuiCloseOps =>
            /\ ConnState = "Closed"
            /\ last.outcome = "Ok"
            /\ last.shown = <<>>)
    /\ [](last.op = "disconnect_serial" =>
            /\ ~read_btn /\ ~write_btn /\ ~scb_buttons /\ ~disconnect_btn
            /\ connect_btn)
    /\ [][last.op \in GuiCloseOps /\ last'.op \in GuiCloseOps =>
            UNCHANGED <<conn, buttons>>]_vars

\* C7 witness: disconnect_serial ran on a connection that was opened and
\* already closed
C7_Witness ==
    /\ last.op = "disconnect_serial"
    /\ ~last.wasOpen
    /\ opened > 0

\* the write or the read of the command raised in the transport
TransportFault ==
    last.op \in CommandOps /\ (last.io = <<"write">> \/ last.readEv = "fault")

\* C8 (as claimed): a command whose write or read faults returns the
\* sentinel "ERROR" as its response and reports the fault as an error that
\* differs from the report of a missing connection.
C8_Fault_Sentinel ==
    TransportFault =>
        /\ last.returned
        /\ last.resp = ERROR
        /\ last.shown # <<>>
        /\ last.shown # ShowError("Serial port not open.", "")

\* C9 (as claimed): a command that reads has written, then waited the
\* grace delay, then read.
C9_Write_Wait_Read ==
    last.readEv # "none" => last.io = <<"write", "sleep", "readline">>

\* C10: when the read of a command times out the command returns the
\* empty response: no error is reported, the response is not the sentinel,
\* and the connection is still open.
C10_Timeout_Empty ==
    last.readEv = "timeout" =>
        /\ last.returned
        /\ last.resp = <<>>
        /\ last.resp # ERROR
        /\ last.outcome = "Ok"
        /\ last.shown = <<>>
        /\ last.raised = ""
        /\ ConnState = "Open"

\* C10 witness: a command was written, nothing arrived, the read timed out
C10_Witness == last.readEv = "timeout" /\ last.tx # <<>>

\* the program has ended: main returned, or the window was closed
ProgramEnded ==
    \/ frontend = "cli" /\ cliPc = "done"
    \/ frontend = "gui" /\ ~windowOpen

\* C11: when the program has ended no connection is open, whichever way
\* it ended: "exit", Ctrl+C at the prompt or during a command, the window
\* being closed; an error raised by a command does not end the program.
C11_Ended_Closed ==
    /\ ProgramEnded => openHandles = {}
    /\ (frontend = "cli" /\ last.raised \in {"SerialException", "UnicodeDecodeError"})
           => ~ProgramEnded

\* C11 witness: Ctrl+C during a command that was written ended the program
C11_Witness ==
    /\ ProgramEnded
    /\ opened > 0
    /\ last.raised = "KeyboardInterrupt"
    /\ last.tx # <<>>

\* number of calls of the port operation x in the trace io
Calls(io, x) == Cardinality({i \in 1..Len(io) : io[i] = x})

\* C12: no retries: a handler calls write at most once and readline at
\* most once, whatever the outcome, no step adds more than one transport
\* write, and a handler that fails reports its failure exactly once (one
\* show_error, one printed error line), a handler that succeeds none.
C12_NoRetry ==
    /\ [](Calls(last.io, "write") <= 1 /\ Calls(last.io, "readline") <= 1)
    /\ [](last.outcome \notin {"Ok", "none"} => Len(last.shown) = 1)
    /\ [](last.outcome = "Ok" => last.shown = <<>>)
    /\ [][nWrites' <= nWrites + 1]_vars

\* C12 witness: a command whose read raised: one write, one read, one
\* report
C12_Witness ==
    /\ last.op \in CommandOps
    /\ last.readEv = "fault"
    /\ Len(last.shown) = 1
    /\ nWrites = MaxCmds

\* the upper-case form of a character of a text
TextUpper(c) ==
    CASE c = "a" -> "A" [] c = "b" -> "B" [] c = "c" -> "C"
      [] c = "d" -> "D" [] c = "e" -> "E" [] c = "f" -> "F"
      [] OTHER -> c

RECURSIVE DropZeros(_)
DropZeros(d) ==
    IF Len(d) > 1 /\ Head(d) = "0" THEN DropZeros(Tail(d)) ELSE d

\* H of the number a hexadecimal text denotes, taken from the text: its
\* digits in upper case without leading zeros
HexOfText(text) ==
    LET s == Strip(text)
        d == DropZeros(IF HasPrefix(s) THEN SubSeq(s, 3, Len(s)) ELSE s)
    IN  [i \in 1..Len(d) |-> TextUpper(d[i])]

\* the text is hexadecimal and denotes a 32-bit number
Is32BitText(text) == IsHexText(text) /\ ~Exceeds32(text)

\* H of the address of a named register
HexOfName(name) ==
    CASE name = "CPUID" -> <<"E", "0", "0", "0", "E", "D", "0", "0">>
      [] name = "ICSR"  -> <<"E", "0", "0", "0", "E", "D", "0", "4">>
      [] name = "VTOR"  -> <<"E", "0", "0", "0", "E", "D", "0", "8">>
      [] name = "AIRCR" -> <<"E", "0", "0", "0", "E", "D", "0", "C">>
      [] name = "SCR"   -> <<"E", "0", "0", "0", "E", "D", "1", "0">>
      [] name = "CCR"   -> <<"E", "0", "0", "0", "E", "D", "1", "4">>
      [] OTHER -> <<>>

TableNames == {"CPUID", "ICSR", "VTOR", "AIRCR", "SCR", "CCR"}

WireRead(h) == <<"r", "e", "a", "d", " ", "0", "x">> \o h \o <<"CR", "LF">>

WireWrite(ha, hv) ==
    <<"w", "r", "i", "t", "e", " ", "0", "x">> \o ha \o <<" ", "0", "x">>
        \o hv \o <<"CR", "LF">>

\* C13: the bytes written for a read of a 32-bit address a are "read 0x"
\* H(a) CR LF and for a write of a and a 32-bit value v "write 0x" H(a)
\* " 0x" H(v) CR LF, H being upper-case hexadecimal without leading zeros:
\* for the custom read and write of the window, for its named reads and
\* for the console.
C13_WireFormat ==
    /\ (last.tx # <<>> /\ last.op \in {"read_custom_register", "read"}
          /\ Len(last.args) = 1 /\ Is32BitText(last.args[1]))
           => last.tx = WireRead(HexOfText(last.args[1]))
    /\ (last.tx # <<>> /\ last.op \in {"write_custom_register", "write"}
          /\ Len(last.args) = 2
          /\ Is32BitText(last.args[1]) /\ Is32BitText(last.args[2]))
           => last.tx = WireWrite(HexOfText(last.args[1]), HexOfText(last.args[2]))
    /\ (last.tx # <<>> /\ last.op = "read_scb_register" /\ last.name \in TableNames)
           => last.tx = WireRead(HexOfName(last.name))

\* C13 witness: the write of 0xDEADBEEF to 0x20000000 was sent
C13_Witness ==
    /\ last.op = "write_custom_register"
    /\ last.tx = <<"w", "r", "i", "t", "e", " ", "0", "x",
                   "2", "0", "0", "0", "0", "0", "0", "0", " ", "0", "x",
                   "D", "E", "A", "D", "B", "E", "E", "F", "CR", "LF">>

C15_Content_NeverFails ==
    (last.op \in CommandOps \cup {"read", "write"} /\ last.readEv = "line")
        => (last.returned /\ last.raised = "" /\ last.outcome = "Ok")

\* C16: while the window is open its widgets match the connection: the
\* read, write and register buttons and Disconnect are enabled exactly when
\* a connection is open, Connect exactly when none is; and a register
\* command triggered by a button never ends in the not-open branch of
\* send_command.
C16_Controls_Match ==
    /\ (frontend = "gui" /\ windowOpen) =>
           /\ read_btn = IsOpen
           /\ write_btn = IsOpen
           /\ scb_buttons = IsOpen
           /\ disconnect_btn = IsOpen
           /\ connect_btn = ~IsOpen
    /\ (last.via = "button" /\ last.op \in CommandOps) =>
           /\ last.outcome # "NotConnected"
           /\ last.wasOpen

\* C16 witness: a button sent a command on the second connection of the
\* run, that is after a connect, a disconnect and a connect
C16_Witness ==
    /\ last.via = "button" /\ last.op \in CommandOps /\ last.tx # <<>>
    /\ opened = 2 /\ IsOpen /\ read_btn /\ ~connect_btn

\* C17 (as claimed): the line a command reads is the device's answer to
\* that command, never the answer to an earlier one.
C17_Reply_Is_Own ==
    last.replyTo # 0 => last.replyTo = nWrites

\* the command of the console failed: its line was rejected or the
\* transport or the decoding raised
CliFailed ==
    /\ frontend = "cli"
    /\ last.op \in {"read", "write", "invalid"}
    /\ last.outcome \in {"UsageError", "InvalidFormat", "InvalidCommand",
                         "TransportError", "DecodeError"}

\* C18: in the console a failed command is reported once and leaves the
\* loop running with the connection open; exit and Ctrl+C end the loop with
\* the connection closed; the loop ends by closing the open connection, and
\* nothing is opened or closed after it ended.
C18_Loop ==
    /\ [](CliFailed => (cliPc = "loop" /\ IsOpen /\ Len(last.shown) = 1))
    /\ []((frontend = "cli" /\ last.op \in {"exit", "KeyboardInterrupt"})
             => (cliPc = "done" /\ ~IsOpen))
    /\ [][(cliPc = "loop" /\ cliPc' = "done") => (IsOpen /\ ~IsOpen')]_vars
    /\ [][(cliPc = "loop" /\ cliPc' = "loop") => UNCHANGED conn]_vars
    /\ [][(frontend = "cli" /\ cliPc = "done") => UNCHANGED <<conn, cliPc>>]_vars

\* C18 witness: the transport raised in the second command of the session
\* and the loop still runs on the open connection
C18_Witness ==
    /\ CliFailed /\ last.outcome = "TransportError" /\ nWrites = 2
    /\ cliPc = "loop" /\ IsOpen

====
